---------------------------- MODULE Spec2Model ----------------------------
(***************************************************************************)
(* A model of the bitcoin-rpc client (src/src/lib.rs): the JSON-RPC call   *)
(* path (call_jsonrpc, deserialize, request), the method catalog built on  *)
(* it and get_raw_transaction_with_prevouts.                               *)
(*                                                                         *)
(* A response text is either malformed or a JSON document.  A JSON value   *)
(* is a record [t, n, s, c, keys]: t is its kind, n the number (for a      *)
(* float, in tenths), s the string, c the elements of an array or the      *)
(* member values of an object, keys the member names of an object, in the  *)
(* order of the text (an object may repeat a name).                        *)
(*                                                                         *)
(* Rust values: u32/u64 are integers, f64 is an integer count of tenths,   *)
(* String a string, bool a boolean, Vec<T> a sequence, Option<T> the       *)
(* empty sequence (None) or a one-element sequence (Some), a struct a      *)
(* record under its Rust field names.                                      *)
(***************************************************************************)
EXTENDS Integers, Sequences, FiniteSets, TLC

\* ------------------------------------------------------------ JSON texts

JNull == [t |-> "null", n |-> 0, s |-> "", c |-> <<>>, keys |-> <<>>]
JBool(b) == [t |-> "bool", n |-> IF b THEN 1 ELSE 0, s |-> "", c |-> <<>>, keys |-> <<>>]
JInt(i) == [t |-> "int", n |-> i, s |-> "", c |-> <<>>, keys |-> <<>>]
JFloat(tenths) == [t |-> "float", n |-> tenths, s |-> "", c |-> <<>>, keys |-> <<>>]
JStr(str) == [t |-> "str", n |-> 0, s |-> str, c |-> <<>>, keys |-> <<>>]
JArr(elems) == [t |-> "arr", n |-> 0, s |-> "", c |-> elems, keys |-> <<>>]
JObj(names, vals) == [t |-> "obj", n |-> 0, s |-> "", c |-> vals, keys |-> names]
\* A text that is no JSON document (empty, HTML, truncated, trailing garbage).
Malformed(str) == [t |-> "malformed", n |-> 0, s |-> str, c |-> <<>>, keys |-> <<>>]

\* ------------------------------------------------------------ Rust values

None == <<>>
Some(x) == <<x>>

\* The outcome of deserializing one JSON value: the value, or serde's message.
Good(x) == [ok |-> TRUE, v |-> x, msg |-> ""]
Bad(m) == [ok |-> FALSE, v |-> <<>>, msg |-> m]

\* Result<T, Error>; err is the variant of Error, msg what it carries.
Ok(x) == [ok |-> TRUE, val |-> x, err |-> "", msg |-> ""]
Err(e, m) == [ok |-> FALSE, val |-> <<>>, err |-> e, msg |-> m]

\* ------------------------------------------------------------ result types

TU32 == [k |-> "u32"]
TU64 == [k |-> "u64"]
TF64 == [k |-> "f64"]
TBool == [k |-> "bool"]
TString == [k |-> "String"]
TOption(T) == [k |-> "Option", of |-> T]
TVec(T) == [k |-> "Vec", of |-> T]
TStruct(name, fields) == [k |-> "struct", name |-> name, fields |-> fields]
\* A struct field: its Rust name, its name in JSON (serde rename), its type.
Field(rust, json, T) == [rust |-> rust, json |-> json, ty |-> T]

GenericResult(T) ==
    TStruct("GenericResult", << Field("result", "result", TOption(T)) >>)

BlockchainInfo ==
    TStruct("BlockchainInfo",
        << Field("chain", "chain", TString),
           Field("blocks", "blocks", TU32),
           Field("headers", "headers", TU32),
           Field("best_block_hash", "bestblockhash", TString),
           Field("difficulty", "difficulty", TF64),
           Field("median_time", "mediantime", TU64),
           Field("initial_block_download", "initialblockdownload", TBool),
           Field("size_on_disk", "size_on_disk", TU64),
           Field("pruned", "pruned", TBool) >>)

NetworkInfo ==
    TStruct("NetworkInfo",
        << Field("version", "version", TU32),
           Field("network_active", "networkactive", TBool) >>)

MiningInfo ==
    TStruct("MiningInfo",
        << Field("blocks", "blocks", TU32),
           Field("difficulty", "difficulty", TF64),
           Field("networkhashps", "networkhashps", TF64),
           Field("pooledtx", "pooledtx", TU32),
           Field("chain", "chain", TString) >>)

PeerInfo ==
    TStruct("PeerInfo",
        << Field("id", "id", TU32),
           Field("addr", "addr", TString),
           Field("network", "network", TString) >>)

TxIndex ==
    TStruct("TxIndex",
        << Field("synced", "synced", TBool),
           Field("best_block_height", "best_block_height", TU32) >>)

IndexInfo == TStruct("IndexInfo", << Field("txindex", "txindex", TxIndex) >>)

TxOutScripts ==
    TStruct("TxOutScripts", << Field("address", "address", TOption(TString)) >>)

TxOut ==
    TStruct("TxOut",
        << Field("value", "value", TF64),
           Field("n", "n", TOption(TU32)),
           Field("script_pub_key", "scriptPubKey", TxOutScripts) >>)

TxIn ==
    TStruct("TxIn",
        << Field("txid", "txid", TOption(TString)),
           Field("vout", "vout", TOption(TU32)),
           Field("prevout", "prevout", TOption(TxOut)) >>)

Transaction ==
    TStruct("Transaction",
        << Field("txid", "txid", TString),
           Field("vin", "vin", TVec(TxIn)),
           Field("vout", "vout", TVec(TxOut)) >>)

Block ==
    TStruct("Block",
        << Field("hash", "hash", TString),
           Field("confirmations", "confirmations", TU32),
           Field("size", "size", TU32),
           Field("height", "height", TU32),
           Field("version", "version", TU32),
           Field("tx", "tx", TVec(Transaction)) >>)

TxOutSetInfo ==
    TStruct("TxOutSetInfo",
        << Field("height", "height", TU32),
           Field("bestblock", "bestblock", TString),
           Field("txouts", "txouts", TU32),
           Field("total_amount", "total_amount", TF64) >>)

\* ------------------------------------------------------------ serde

\* The index of the field a member name selects, 0 for a name of no field
\* (serde's derived field visitor: unknown names are ignored).
FieldIndex(fields, name) ==
    IF \E i \in 1..Len(fields) : fields[i].json = name
    THEN CHOOSE i \in 1..Len(fields) : fields[i].json = name
    ELSE 0

\* The struct value of the collected fields: a record under the Rust names.
BuildStruct(fields, got) ==
    [nm \in {fields[i].rust : i \in 1..Len(fields)} |->
        got[CHOOSE i \in 1..Len(fields) : fields[i].rust = nm][1]]

RECURSIVE De(_, _)
RECURSIVE DeVec(_, _, _, _)
RECURSIVE VisitMap(_, _, _, _)
RECURSIVE VisitSeq(_, _, _, _)
RECURSIVE MissingFields(_, _, _)

\* Vec<T>: the elements in order, the first failure ends it.
DeVec(T, elems, i, acc) ==
    IF i > Len(elems) THEN Good(acc)
    ELSE LET r == De(T, elems[i])
         IN  IF r.ok THEN DeVec(T, elems, i + 1, Append(acc, r.v)) ELSE r

\* MissingFields with a slip: a field never given is "missing field" even
\* when it is an Option.
MissingFields_OptionRequired(fields, got, i) ==
    IF i > Len(fields) THEN Good(BuildStruct(fields, got))
    ELSE IF got[i] # <<>> THEN MissingFields(fields, got, i + 1)
    ELSE Bad("missing field")

\* After the last member: a field never given is None when it is an Option
\* and "missing field" otherwise.  got[i] is <<>> (not given) or <<value>>.
MissingFields(fields, got, i) ==
    IF i > Len(fields) THEN Good(BuildStruct(fields, got))
    ELSE IF got[i] # <<>> THEN MissingFields(fields, got, i + 1)
    ELSE IF fields[i].ty.k = "Option"
         THEN MissingFields(fields, [got EXCEPT ![i] = <<None>>], i + 1)
         ELSE Bad("missing field")

\* A struct from a JSON object: members in text order; a repeated field is
\* "duplicate field", a name of no field is skipped with its value.
VisitMap(fields, obj, i, got) ==
    IF i > Len(obj.keys) THEN MissingFields(fields, got, 1)
    ELSE LET f == FieldIndex(fields, obj.keys[i])
         IN  IF f = 0 THEN VisitMap(fields, obj, i + 1, got)
             ELSE IF got[f] # <<>> THEN Bad("duplicate field")
             ELSE LET r == De(fields[f].ty, obj.c[i])
                  IN  IF r.ok
                      THEN VisitMap(fields, obj, i + 1, [got EXCEPT ![f] = <<r.v>>])
                      ELSE r

\* A struct from a JSON array: the fields positionally, in declaration order;
\* too few elements is "invalid length", too many "trailing characters".
VisitSeq(fields, arr, i, got) ==
    IF i > Len(fields)
    THEN IF Len(arr.c) > Len(fields) THEN Bad("trailing characters")
         ELSE Good(BuildStruct(fields, got))
    ELSE IF i > Len(arr.c) THEN Bad("invalid length")
    ELSE LET r == De(fields[i].ty, arr.c[i])
         IN  IF r.ok
             THEN VisitSeq(fields, arr, i + 1, [got EXCEPT ![i] = <<r.v>>])
             ELSE r

\* T::deserialize on a JSON value (serde's derive over serde_json).  The
\* integers of the model stay below 2^31, so of the range of u32 and u64 only
\* the lower end is checked.
De(T, j) ==
    CASE T.k \in {"u32", "u64"} ->
            IF j.t # "int" THEN Bad("invalid type")
            ELSE IF j.n < 0 THEN Bad("invalid value")
            ELSE Good(j.n)
      [] T.k = "f64" ->
            IF j.t = "int" THEN Good(j.n * 10)
            ELSE IF j.t = "float" THEN Good(j.n)
            ELSE Bad("invalid type")
      [] T.k = "bool" ->
            IF j.t = "bool" THEN Good(j.n = 1) ELSE Bad("invalid type")
      [] T.k = "String" ->
            IF j.t = "str" THEN Good(j.s) ELSE Bad("invalid type")
      [] T.k = "Option" ->
            IF j.t = "null" THEN Good(None)
            ELSE LET r == De(T.of, j)
                 IN  IF r.ok THEN Good(Some(r.v)) ELSE r
      [] T.k = "Vec" ->
            IF j.t = "arr" THEN DeVec(T.of, j.c, 1, <<>>) ELSE Bad("invalid type")
      [] T.k = "struct" ->
            LET none == [i \in 1..Len(T.fields) |-> <<>>]
            IN  IF j.t = "obj" THEN VisitMap(T.fields, j, 1, none)
                ELSE IF j.t = "arr" THEN VisitSeq(T.fields, j, 1, none)
                ELSE Bad("invalid type")

\* serde_json::from_str::<T>: the text must be one JSON document.
from_str(T, text) ==
    IF text.t = "malformed" THEN Bad("syntax") ELSE De(T, text)

\* deserialize with a slip: a text that does not parse is BadResult.
deserialize_ParseErrorAsBadResult(T, data) ==
    LET u == from_str(GenericResult(T), data)
    IN  IF u.ok
        THEN IF u.v.result # None THEN Ok(u.v.result[1])
             ELSE Err("BadResult", "")
        ELSE Err("BadResult", "")

\* RpcClient::deserialize::<T>
deserialize(T, data) ==
    LET u == from_str(GenericResult(T), data)
    IN  IF u.ok
        THEN IF u.v.result # None THEN Ok(u.v.result[1])
             ELSE Err("BadResult", "")
        ELSE Err("FailedToDeserialize", u.msg)


\* ------------------------------------------------------------ call_jsonrpc

\* Option<Duration>, in seconds.
NoTimeout == None
from_secs(secs) == Some(secs)

\* The body call_jsonrpc posts: json!({"jsonrpc", "method", "params"}).
RequestBody(method, params) ==
    [jsonrpc |-> "2.0", method |-> method, params |-> params]

\* What came of one exchange: the client could not be built, send() failed,
\* or a response arrived, whose body text() can read or fails to read.
NoExchange == [kind |-> "none", status |-> 0, body |-> JNull, readable |-> FALSE]
BuildFailed == [kind |-> "build_failed", status |-> 0, body |-> JNull, readable |-> FALSE]
SendFailed == [kind |-> "send_failed", status |-> 0, body |-> JNull, readable |-> FALSE]
Response(status, body, readable) ==
    [kind |-> "response", status |-> status, body |-> body, readable |-> readable]

\* The match on the status code, for a response that arrived.
StatusMatch(r) ==
    CASE r.status \in 0..399 ->
            IF r.readable THEN Ok(r.body) ELSE Err("Reqwest", "body")
      [] r.status = 400 -> Err("BadRequest", "")
      [] r.status = 401 -> Err("Unauthorized", "")
      [] r.status = 402 -> Err("UnhandledClientError", "")
      [] r.status = 403 -> Err("Forbidden", "")
      [] r.status = 404 -> Err("NotFound", "")
      [] r.status = 405 -> Err("MethodNotAllowed", "")
      [] r.status \in 406..428 -> Err("UnhandledClientError", "")
      [] r.status = 429 -> Err("TooManyRequests", "")
      [] r.status \in 430..499 -> Err("UnhandledClientError", "")
      [] r.status = 500 -> Err("InternalServerError", "")
      [] r.status = 501 -> Err("NotImplemented", "")
      [] r.status = 502 -> Err("BadGateway", "")
      [] r.status = 503 -> Err("ServiceUnavailable", "")
      [] r.status = 504 -> Err("GatewayTimeout", "")
      [] OTHER -> Err("UnhandledServerError", "")

\* call_jsonrpc with a slip in the match: 429 falls in the range 406..=429.
call_jsonrpc_429InRange(r) ==
    IF r.kind = "build_failed" THEN Err("Reqwest", "builder")
    ELSE IF r.kind = "send_failed" THEN Err("Reqwest", "request")
    ELSE IF r.status = 429 THEN Err("UnhandledClientError", "")
    ELSE StatusMatch(r)

\* call_jsonrpc with a slip: a failed send() is taken for an empty body.
call_jsonrpc_SendErrorSwallowed(r) ==
    IF r.kind = "build_failed" THEN Err("Reqwest", "builder")
    ELSE IF r.kind = "send_failed" THEN Ok(Malformed(""))
    ELSE StatusMatch(r)

\* RpcClient::call_jsonrpc, from the outcome of its exchange: build()? and
\* send()? return the reqwest error, then the status decides.
call_jsonrpc(r) ==
    IF r.kind = "build_failed" THEN Err("Reqwest", "builder")
    ELSE IF r.kind = "send_failed" THEN Err("Reqwest", "request")
    ELSE StatusMatch(r)

\* RpcClient::request::<R>, from call_jsonrpc's return: `?` hands an error
\* back, a text goes to deserialize.
request(R, response) ==
    IF response.ok THEN deserialize(R, response.val) ELSE response

\* ------------------------------------------------------------ the methods

\* What a method hands to request: method, params, timeout, result type.
Call(method, params, timeout, R) ==
    [method |-> method, params |-> params, timeout |-> timeout, ty |-> R]

get_blockchain_info == Call("getblockchaininfo", <<>>, NoTimeout, BlockchainInfo)
get_network_info == Call("getnetworkinfo", <<>>, NoTimeout, NetworkInfo)
get_mining_info == Call("getmininginfo", <<>>, NoTimeout, MiningInfo)
get_peer_info == Call("getpeerinfo", <<>>, NoTimeout, TVec(PeerInfo))
get_index_info == Call("getindexinfo", <<>>, NoTimeout, IndexInfo)
get_block_count == Call("getblockcount", <<>>, NoTimeout, TU32)
get_block_hash(block_height) ==
    Call("getblockhash", << JInt(block_height) >>, NoTimeout, TString)
get_block(block_hash) ==
    Call("getblock", << JStr(block_hash), JInt(2) >>, from_secs(120), Block)
get_block_hex(block_hash) ==
    Call("getblock", << JStr(block_hash), JInt(0) >>, from_secs(120), TString)
get_raw_mempool == Call("getrawmempool", <<>>, from_secs(120), TVec(TString))
\* get_raw_transaction with a slip: no timeout.
get_raw_transaction_NoTimeout(txid) ==
    Call("getrawtransaction", << JStr(txid), JBool(TRUE) >>, NoTimeout, Transaction)
get_raw_transaction(txid) ==
    Call("getrawtransaction", << JStr(txid), JBool(TRUE) >>, from_secs(120), Transaction)
get_difficulty == Call("getdifficulty", <<>>, NoTimeout, TF64)
get_txoutset_info == Call("gettxoutsetinfo", <<>>, from_secs(1800), TxOutSetInfo)

\* The first call of an invocation [name, arg] of a public method.
FirstCall(i) ==
    CASE i.name = "get_blockchain_info" -> get_blockchain_info
      [] i.name = "get_network_info" -> get_network_info
      [] i.name = "get_mining_info" -> get_mining_info
      [] i.name = "get_peer_info" -> get_peer_info
      [] i.name = "get_index_info" -> get_index_info
      [] i.name = "get_block_count" -> get_block_count
      [] i.name = "get_block_hash" -> get_block_hash(i.arg.n)
      [] i.name = "get_block" -> get_block(i.arg.s)
      [] i.name = "get_block_hex" -> get_block_hex(i.arg.s)
      [] i.name = "get_raw_mempool" -> get_raw_mempool
      [] i.name = "get_raw_transaction" -> get_raw_transaction(i.arg.s)
      [] i.name = "get_raw_transaction_with_prevouts" -> get_raw_transaction(i.arg.s)
      [] i.name = "get_difficulty" -> get_difficulty
      [] i.name = "get_txoutset_info" -> get_txoutset_info

\* ------------------------------------------------------------ enrichment

RECURSIVE ScanOutputs(_, _, _, _)
\* ScanOutputs with a slip: the index is not compared.
ScanOutputs_AnyIndex(outputs, vout, prevout, k) ==
    IF k > Len(outputs) THEN prevout
    ELSE IF outputs[k].n # None
         THEN ScanOutputs(outputs, vout, Some(outputs[k]), k + 1)
         ELSE ScanOutputs(outputs, vout, prevout, k + 1)

\* ScanOutputs with a slip: the scan stops at the first output with the index.
ScanOutputs_FirstMatch(outputs, vout, prevout, k) ==
    IF k > Len(outputs) THEN prevout
    ELSE IF outputs[k].n # None /\ outputs[k].n[1] = vout
         THEN Some(outputs[k])
         ELSE ScanOutputs(outputs, vout, prevout, k + 1)

\* prev_raw_transaction.vout.into_iter().for_each(..): every output whose n
\* is Some(vout) is assigned to prevout, in order.
ScanOutputs(outputs, vout, prevout, k) ==
    IF k > Len(outputs) THEN prevout
    ELSE LET output == outputs[k]
         IN  IF output.n # None /\ output.n[1] = vout
             THEN ScanOutputs(outputs, vout, Some(output), k + 1)
             ELSE ScanOutputs(outputs, vout, prevout, k + 1)

\* The closure's effect on one input, given what its lookup returned.
ResolveInput(input, prev_raw_transaction) ==
    IF prev_raw_transaction.ok
    THEN [input EXCEPT !.prevout =
            ScanOutputs(prev_raw_transaction.val.vout, input.vout[1], @, 1)]
    ELSE input

\* Whether the closure looks this input up: it has a txid and a vout.
NeedsLookup(input) == input.txid # None /\ input.vout # None

\* The first input from position `from` on that is looked up, 0 if none is.
NextLookup(tx, from) ==
    IF \E i \in from..Len(tx.vin) : NeedsLookup(tx.vin[i])
    THEN CHOOSE i \in from..Len(tx.vin) :
            /\ NeedsLookup(tx.vin[i])
            /\ \A j \in from..(i - 1) : ~NeedsLookup(tx.vin[j])
    ELSE 0


\* ------------------------------------------------------------ sample data

\* Values of the record types, as a node could report them.
Out(value, n) ==
    [value |-> value, n |-> n, script_pub_key |-> [address |-> Some("bc1q")]]
In(txid, vout, prevout) == [txid |-> txid, vout |-> vout, prevout |-> prevout]

\* Two inputs spending outputs 0 and 1 of the same previous transaction.
Tx1 == [txid |-> "a",
        vin |-> << In(Some("b"), Some(0), None), In(Some("b"), Some(1), None) >>,
        vout |-> << Out(10, Some(0)), Out(20, Some(1)) >>]
\* A coinbase input, then an ordinary one; the outputs repeat index 1 and
\* come out of order.
Tx2 == [txid |-> "b",
        vin |-> << In(None, None, None), In(Some("c"), Some(1), None) >>,
        vout |-> << Out(30, Some(1)), Out(40, Some(0)), Out(50, Some(1)) >>]
\* Inputs lacking the index or the txid, then a complete one; one output
\* carries no index.
Tx3 == [txid |-> "c",
        vin |-> << In(Some("b"), None, None), In(None, Some(0), None),
                   In(Some("c"), Some(0), None) >>,
        vout |-> << Out(60, None), Out(70, Some(0)) >>]
\* The response itself carries a prevout for its inputs; no outputs.
Tx4 == [txid |-> "d",
        vin |-> << In(Some("b"), Some(0), Some(Out(80, Some(7)))),
                   In(None, None, Some(Out(90, Some(0)))) >>,
        vout |-> << >>]

SampleTransactions == << Tx1, Tx2, Tx3, Tx4 >>

SampleBlockchainInfo ==
    [chain |-> "main", blocks |-> 800000, headers |-> 800001,
     best_block_hash |-> "00ab", difficulty |-> 15, median_time |-> 1700,
     initial_block_download |-> FALSE, size_on_disk |-> 5000, pruned |-> TRUE]
SampleNetworkInfo == [version |-> 250000, network_active |-> TRUE]
SampleMiningInfo ==
    [blocks |-> 800000, difficulty |-> 15, networkhashps |-> 30,
     pooledtx |-> 2, chain |-> "main"]
SamplePeerInfo == << [id |-> 1, addr |-> "10.0.0.1:8333", network |-> "ipv4"] >>
SampleIndexInfo == [txindex |-> [synced |-> TRUE, best_block_height |-> 800000]]
SampleBlock ==
    [hash |-> "00ab", confirmations |-> 1, size |-> 285, height |-> 800000,
     version |-> 2, tx |-> << Tx2 >>]
SampleTxOutSetInfo ==
    [height |-> 800000, bestblock |-> "00ab", txouts |-> 3, total_amount |-> 125]

\* The result types of the catalog, each with sample values.
Samples ==
    << [ty |-> TU32, vals |-> << 800000, 0 >>],
       [ty |-> TString, vals |-> << "00ab" >>],
       [ty |-> TF64, vals |-> << 15, 20 >>],
       [ty |-> TVec(TString), vals |-> << << "a", "b" >>, << >> >>],
       [ty |-> BlockchainInfo, vals |-> << SampleBlockchainInfo >>],
       [ty |-> NetworkInfo, vals |-> << SampleNetworkInfo >>],
       [ty |-> MiningInfo, vals |-> << SampleMiningInfo >>],
       [ty |-> TVec(PeerInfo), vals |-> << SamplePeerInfo >>],
       [ty |-> IndexInfo, vals |-> << SampleIndexInfo >>],
       [ty |-> Block, vals |-> << SampleBlock >>],
       [ty |-> Transaction, vals |-> SampleTransactions],
       [ty |-> TxOutSetInfo, vals |-> << SampleTxOutSetInfo >> ] >>

RECURSIVE ToJson(_, _)
\* The JSON text of a value of type T: a struct as an object of its fields
\* under their JSON names, a None field left out, an f64 as a decimal.
ToJson(T, x) ==
    CASE T.k \in {"u32", "u64"} -> JInt(x)
      [] T.k = "f64" -> JFloat(x)
      [] T.k = "bool" -> JBool(x)
      [] T.k = "String" -> JStr(x)
      [] T.k = "Option" -> IF x = None THEN JNull ELSE ToJson(T.of, x[1])
      [] T.k = "Vec" -> JArr([i \in 1..Len(x) |-> ToJson(T.of, x[i])])
      [] T.k = "struct" ->
            LET F == T.fields
                given == SelectSeq([i \in 1..Len(F) |-> i],
                            LAMBDA i : ~(F[i].ty.k = "Option" /\ x[F[i].rust] = None))
            IN  JObj([i \in 1..Len(given) |-> F[given[i]].json],
                     [i \in 1..Len(given) |-> ToJson(F[given[i]].ty, x[F[given[i]].rust])])

\* The envelope {"result": j}, and the one a node sends, {"result", "error", "id"}.
Envelope(j) == JObj(<< "result" >>, << j >>)
NodeEnvelope(j) == JObj(<< "result", "error", "id" >>, << j, JNull, JNull >>)

\* The envelopes of the sample values.
SampleEnvelopes ==
    UNION { { Envelope(ToJson(Samples[t].ty, Samples[t].vals[v])) :
                v \in 1..Len(Samples[t].vals) } : t \in 1..Len(Samples) }

AddMember(obj, name, val) == JObj(Append(obj.keys, name), Append(obj.c, val))

\* Other texts a server can answer with.
OtherBodies ==
    { Malformed(""), Malformed("<html>"),
      JObj(<< >>, << >>),
      JObj(<< "error" >>, << JStr("x") >>),
      Envelope(JNull),
      JObj(<< "result", "error", "id" >>,
           << JNull, JObj(<< "code", "message" >>, << JInt(-5), JStr("No such tx") >>),
              JNull >>),
      NodeEnvelope(JInt(800000)),
      NodeEnvelope(ToJson(Transaction, Tx2)),
      Envelope(AddMember(ToJson(Transaction, Tx1), "hex", JStr("0200"))),
      JObj(<< "result", "result" >>, << JInt(1), JInt(2) >>),
      JArr(<< JInt(800000) >>), JArr(<< >>), JArr(<< JNull >>),
      JArr(<< JInt(1), JInt(2) >>),
      JInt(800000), JStr("00ab"), JNull,
      Envelope(JInt(-1)), Envelope(JInt(2)), Envelope(JBool(TRUE)),
      Envelope(JObj(<< "version" >>, << JInt(1) >>)) }

Bodies == SampleEnvelopes \cup OtherBodies

\* The bodies of the runs over every status code.
FewBodies == { Malformed("<html>"), Envelope(JNull), Envelope(JInt(800000)) }

\* The status codes a response can carry run from 0 to MaxStatus; the runs
\* over every body take them from StatusSample.
MaxStatus == 999
StatusSample == { 200, 399, 400, 404, 429, 499, 500, 503, 599 }

\* The invocations of the public methods.
Invocation(name, arg) == [name |-> name, arg |-> arg]
SimpleInvocations ==
    { Invocation(nm, JNull) :
        nm \in { "get_blockchain_info", "get_network_info", "get_mining_info",
                 "get_peer_info", "get_index_info", "get_block_count",
                 "get_raw_mempool", "get_difficulty", "get_txoutset_info" } }
    \cup { Invocation("get_block_hash", JInt(800000)) }
    \cup { Invocation(nm, JStr("00ab")) : nm \in { "get_block", "get_block_hex" } }
    \cup { Invocation("get_raw_transaction", JStr("a")) }
Enrichments == { Invocation("get_raw_transaction_with_prevouts", JStr("a")) }
NoInvocation == Invocation("", JNull)


\* ------------------------------------------------------------ the client

VARIABLES
    pc,               \* where the caller's thread is: idle, calling (about to
                      \* build the HTTP client), sent (blocked in send),
                      \* answered (the exchange is over), done
    inv,              \* the public method invoked, with its argument
    calls,            \* the call_jsonrpc calls of this invocation, in order
    posts,            \* the request bodies posted in this invocation, in order
    res,              \* the outcome of the latest exchange
    rpc,              \* what the latest call_jsonrpc returned
    decoded,          \* the texts handed to deserialize in this invocation
    ret,              \* what the invocation returned
    raw_transaction,  \* get_raw_transaction_with_prevouts's local, once decoded
    input,            \* the position in vin of the input being looked up
    primary,          \* the transaction as the first response decoded to
    lookups           \* the finished lookups: [input, prev], in order

vars == << pc, inv, calls, posts, res, rpc, decoded, ret, raw_transaction,
           input, primary, lookups >>

Pending == Err("pending", "")

Init ==
    /\ pc = "idle"
    /\ inv = NoInvocation
    /\ calls = << >>
    /\ posts = << >>
    /\ res = NoExchange
    /\ rpc = Pending
    /\ decoded = << >>
    /\ ret = Pending
    /\ raw_transaction = None
    /\ input = 0
    /\ primary = None
    /\ lookups = << >>

\* What the log of calls keeps of a call.
Logged(c) == [method |-> c.method, params |-> c.params, timeout |-> c.timeout]

\* The caller invokes a public method: it reaches its first call_jsonrpc.
Invoke(I) ==
    /\ pc = "idle"
    /\ \E i \in I :
        /\ inv' = i
        /\ calls' = << Logged(FirstCall(i)) >>
    /\ pc' = "calling"
    /\ UNCHANGED << posts, res, rpc, decoded, ret, raw_transaction, input,
                    primary, lookups >>

\* Client::builder().timeout(timeout).build()? fails: nothing is posted.
BuildFails ==
    /\ pc = "calling"
    /\ res' = BuildFailed
    /\ pc' = "answered"
    /\ UNCHANGED << inv, calls, posts, rpc, decoded, ret, raw_transaction,
                    input, primary, lookups >>

\* The client is built and the body is posted; the thread blocks in send().
Send ==
    /\ pc = "calling"
    /\ LET c == calls[Len(calls)]
       IN  posts' = Append(posts, RequestBody(c.method, c.params))
    /\ res' = NoExchange
    /\ pc' = "sent"
    /\ UNCHANGED << inv, calls, rpc, decoded, ret, raw_transaction, input,
                    primary, lookups >>

\* send() fails (connection, TLS, timeout).
SendFails ==
    /\ pc = "sent"
    /\ res' = SendFailed
    /\ pc' = "answered"
    /\ UNCHANGED << inv, calls, posts, rpc, decoded, ret, raw_transaction,
                    input, primary, lookups >>

\* A response arrives, with any status and body; reading the body may fail.
Answer(S, B) ==
    /\ pc = "sent"
    /\ \E status \in S, body \in B, readable \in BOOLEAN :
        res' = Response(status, body, readable)
    /\ pc' = "answered"
    /\ UNCHANGED << inv, calls, posts, rpc, decoded, ret, raw_transaction,
                    input, primary, lookups >>

\* The texts deserialize has seen once request has run on `response`.
Decoded(response) ==
    IF response.ok THEN Append(decoded, response.val) ELSE decoded

\* A method other than get_raw_transaction_with_prevouts returns what
\* request gives it.
Finish ==
    /\ pc = "answered"
    /\ inv.name # "get_raw_transaction_with_prevouts"
    /\ LET response == call_jsonrpc(res)
       IN  /\ rpc' = response
           /\ decoded' = Decoded(response)
           /\ ret' = request(FirstCall(inv).ty, response)
    /\ pc' = "done"
    /\ UNCHANGED << inv, calls, posts, res, raw_transaction, input, primary,
                    lookups >>

\* The for_each over vin goes on from position `from` of tx: it reaches the
\* next input it looks up and calls get_raw_transaction, or it is over and
\* the method returns Ok(raw_transaction).
Continue(tx, from) ==
    LET i == NextLookup(tx, from)
    IN  IF i = 0
        THEN /\ pc' = "done"
             /\ ret' = Ok(tx)
             /\ input' = 0
             /\ calls' = calls
        ELSE /\ pc' = "calling"
             /\ ret' = ret
             /\ input' = i
             /\ calls' = Append(calls, Logged(get_raw_transaction(tx.vin[i].txid[1])))

\* get_raw_transaction_with_prevouts: self.get_raw_transaction(txid)? has
\* returned; an error is the method's result, a transaction starts the loop.
EnrichPrimary ==
    /\ pc = "answered"
    /\ inv.name = "get_raw_transaction_with_prevouts"
    /\ raw_transaction = None
    /\ LET response == call_jsonrpc(res)
           first == request(Transaction, response)
       IN  /\ rpc' = response
           /\ decoded' = Decoded(response)
           /\ IF first.ok
              THEN /\ raw_transaction' = Some(first.val)
                   /\ primary' = Some(first.val)
                   /\ Continue(first.val, 1)
              ELSE /\ ret' = first
                   /\ pc' = "done"
                   /\ UNCHANGED << raw_transaction, primary, input, calls >>
    /\ UNCHANGED << inv, posts, res, lookups >>

\* get_raw_transaction_with_prevouts: the lookup of one input has returned;
\* the closure updates the input and the loop goes on.
EnrichSecondary ==
    /\ pc = "answered"
    /\ inv.name = "get_raw_transaction_with_prevouts"
    /\ raw_transaction # None
    /\ LET response == call_jsonrpc(res)
           prev_raw_transaction == request(Transaction, response)
           tx == [raw_transaction[1] EXCEPT
                    !.vin[input] = ResolveInput(@, prev_raw_transaction)]
       IN  /\ rpc' = response
           /\ decoded' = Decoded(response)
           /\ raw_transaction' = Some(tx)
           /\ lookups' = Append(lookups,
                            [input |-> input, prev |-> prev_raw_transaction])
           /\ Continue(tx, input + 1)
    /\ UNCHANGED << inv, posts, res, primary >>

\* The caller takes the result; the locals of the invocation are gone.
Return ==
    /\ pc = "done"
    /\ pc' = "idle"
    /\ inv' = NoInvocation
    /\ calls' = << >>
    /\ posts' = << >>
    /\ res' = NoExchange
    /\ rpc' = Pending
    /\ decoded' = << >>
    /\ ret' = Pending
    /\ raw_transaction' = None
    /\ input' = 0
    /\ primary' = None
    /\ lookups' = << >>

\* Every method, every body, the sampled status codes.
Next ==
    \/ Invoke(SimpleInvocations \cup Enrichments)
    \/ BuildFails
    \/ Send
    \/ SendFails
    \/ Answer(StatusSample, Bodies)
    \/ Finish
    \/ EnrichPrimary
    \/ EnrichSecondary
    \/ Return

Spec == Init /\ [][Next]_vars

\* The single call path, every status code, a few bodies.
NextStatus ==
    \/ Invoke(SimpleInvocations)
    \/ BuildFails
    \/ Send
    \/ SendFails
    \/ Answer(0..MaxStatus, FewBodies)
    \/ Finish
    \/ Return

SpecStatus == Init /\ [][NextStatus]_vars


\* ------------------------------------------------------------ properties

IsSimple == inv \in SimpleInvocations
IsEnrichment == inv \in Enrichments

\* The error kind the status table gives a status code from 400 on.
MappedKind(status) ==
    CASE status = 400 -> "BadRequest"
      [] status = 401 -> "Unauthorized"
      [] status = 403 -> "Forbidden"
      [] status = 404 -> "NotFound"
      [] status = 405 -> "MethodNotAllowed"
      [] status = 429 -> "TooManyRequests"
      [] status = 500 -> "InternalServerError"
      [] status = 501 -> "NotImplemented"
      [] status = 502 -> "BadGateway"
      [] status = 503 -> "ServiceUnavailable"
      [] status = 504 -> "GatewayTimeout"
      [] status \in 400..499 -> "UnhandledClientError"
      [] OTHER -> "UnhandledServerError"

\* call_jsonrpc has returned on a response that arrived.
Classified == pc = "done" /\ res.kind = "response"

\* C1, as stated: the status code alone decides call_jsonrpc's outcome; a
\* status of 0..399 succeeds with the body unchanged, a status from 400 on
\* fails with the error kind the table maps it to.
C1_StatusAloneDecides ==
    Classified =>
        IF res.status <= 399
        THEN rpc.ok /\ rpc.val = res.body
        ELSE ~rpc.ok /\ rpc.err = MappedKind(res.status)

\* C1, amended: a status of 0..399 returns the body unchanged when the body
\* can be read and fails with the transport error (Reqwest) when reading it
\* fails; a status from 400 on fails with the error kind the table maps it
\* to, whatever the body.
C1_StatusAndBodyReadDecide ==
    Classified =>
        IF res.status <= 399
        THEN IF res.readable
             THEN rpc.ok /\ rpc.val = res.body
             ELSE ~rpc.ok /\ rpc.err = "Reqwest"
        ELSE ~rpc.ok /\ rpc.err = MappedKind(res.status)

C1_Witness ==
    /\ Classified
    /\ res.status = 399
    /\ res.readable
    /\ rpc.ok
    /\ rpc.val = res.body

\* The sample values of the result type section 6 of the specification
\* gives each method.
SamplesOf(name) ==
    CASE name = "get_block_count" -> Samples[1]
      [] name \in {"get_block_hash", "get_block_hex"} -> Samples[2]
      [] name = "get_difficulty" -> Samples[3]
      [] name = "get_raw_mempool" -> Samples[4]
      [] name = "get_blockchain_info" -> Samples[5]
      [] name = "get_network_info" -> Samples[6]
      [] name = "get_mining_info" -> Samples[7]
      [] name = "get_peer_info" -> Samples[8]
      [] name = "get_index_info" -> Samples[9]
      [] name = "get_block" -> Samples[10]
      [] name = "get_raw_transaction" -> Samples[11]
      [] name = "get_txoutset_info" -> Samples[12]

\* The positions of the members named "result" in an object.
ResultMembers(text) == { i \in 1..Len(text.keys) : text.keys[i] = "result" }

\* The text is an object whose one "result" member is j.
HasResult(text, j) ==
    /\ text.t = "obj"
    /\ Cardinality(ResultMembers(text)) = 1
    /\ \A i \in ResultMembers(text) : text.c[i] = j

\* The text is an object with no result, or with a null one.
NoResult(text) ==
    /\ text.t = "obj"
    /\ Cardinality(ResultMembers(text)) <= 1
    /\ \A i \in ResultMembers(text) : text.c[i].t = "null"

\* A method's request has handed the text of a response to deserialize.
Decoding == pc = "done" /\ IsSimple /\ rpc.ok

\* C2: decoding the envelope {"result": X} of a value X of the method's
\* result type returns a value equal to X; decoding an envelope whose result
\* is null or missing returns BadResult.
C2_EnvelopeRoundTrip ==
    Decoding =>
        LET S == SamplesOf(inv.name)
        IN  /\ \A v \in 1..Len(S.vals) :
                HasResult(rpc.val, ToJson(S.ty, S.vals[v]))
                    => ret.ok /\ ret.val = S.vals[v]
            /\ NoResult(rpc.val) => ~ret.ok /\ ret.err = "BadResult"

C2_Witness ==
    /\ Decoding
    /\ inv.name = "get_block_count"
    /\ rpc.val = Envelope(JInt(800000))
    /\ ret.ok
    /\ ret.val = 800000

RECURSIVE Conforms(_, _)
\* The JSON value has the shape of a value of type T.  A struct is an object
\* that gives each field at most once, every field that is no Option, and
\* each with the shape of its type, or an array of exactly the fields in
\* declaration order.
Conforms(T, j) ==
    CASE T.k \in {"u32", "u64"} -> j.t = "int" /\ j.n >= 0
      [] T.k = "f64" -> j.t \in {"int", "float"}
      [] T.k = "bool" -> j.t = "bool"
      [] T.k = "String" -> j.t = "str"
      [] T.k = "Option" -> j.t = "null" \/ Conforms(T.of, j)
      [] T.k = "Vec" ->
            j.t = "arr" /\ \A i \in 1..Len(j.c) : Conforms(T.of, j.c[i])
      [] T.k = "struct" ->
            \/ /\ j.t = "obj"
               /\ \A f \in 1..Len(T.fields) :
                    LET at == { i \in 1..Len(j.keys) : j.keys[i] = T.fields[f].json }
                    IN  /\ Cardinality(at) <= 1
                        /\ at = {} => T.fields[f].ty.k = "Option"
                        /\ \A i \in at : Conforms(T.fields[f].ty, j.c[i])
            \/ /\ j.t = "arr"
               /\ Len(j.c) = Len(T.fields)
               /\ \A f \in 1..Len(T.fields) : Conforms(T.fields[f].ty, j.c[f])

\* The text is an object with a single non-null result that has not the
\* shape of type T.
WrongShape(T, text) ==
    /\ text.t = "obj"
    /\ Cardinality(ResultMembers(text)) = 1
    /\ \A i \in ResultMembers(text) :
        text.c[i].t # "null" /\ ~Conforms(T, text.c[i])

FailedToDeserialize == ~ret.ok /\ ret.err = "FailedToDeserialize" /\ ret.msg # ""

\* C3, as stated: a text that is not valid JSON, not a JSON object, or that
\* has a non-null result of the wrong shape for the method's type makes
\* deserialize return FailedToDeserialize with the parser's message.
C3_NonEnvelopeFailsToDeserialize ==
    Decoding =>
        LET T == SamplesOf(inv.name).ty
        IN  (rpc.val.t # "obj" \/ WrongShape(T, rpc.val)) => FailedToDeserialize

\* C3, amended: deserialize returns FailedToDeserialize with the parser's
\* message, never BadResult or a payload, for every text that is not valid
\* JSON, is a JSON value other than an object or a one-element array, is an
\* object that repeats "result", or has a non-null result (the "result"
\* member of the object, the one element of the array) of the wrong shape
\* for the method's type; a one-element array [X] is read as the envelope
\* whose result is X.
C3_DecodingIsTotal ==
    Decoding =>
        LET T == SamplesOf(inv.name).ty
        IN  /\ (rpc.val.t = "malformed" \/ ~Conforms(GenericResult(T), rpc.val))
                => FailedToDeserialize
            /\ (rpc.val.t = "arr" /\ Len(rpc.val.c) = 1 /\ Conforms(T, rpc.val.c[1]))
                => ret.ok /\ ret = deserialize(T, Envelope(rpc.val.c[1]))
            /\ \/ ret.ok
               \/ ret.err = "BadResult"
               \/ FailedToDeserialize

C3_Witness ==
    /\ Decoding
    /\ inv.name = "get_network_info"
    /\ rpc.val = Envelope(JObj(<< "version" >>, << JInt(1) >>))
    /\ FailedToDeserialize
    /\ ret.msg = "missing field"

\* get_raw_transaction_with_prevouts is over and its first call decoded a
\* transaction.
Enriched == pc = "done" /\ IsEnrichment /\ primary # None

\* The finished lookups of the input at position i.
LookupsOf(i) == { k \in 1..Len(lookups) : lookups[k].input = i }

\* The positions of the outputs of transaction prev whose n is index.
Matches(prev, index) ==
    { m \in 1..Len(prev.vout) :
        prev.vout[m].n # None /\ prev.vout[m].n[1] = index }

Last(S) == CHOOSE m \in S : \A o \in S : o <= m

\* The lookup of input i failed, or found no output with the index.
Unresolved(i) ==
    \A k \in LookupsOf(i) :
        \/ ~lookups[k].prev.ok
        \/ Matches(lookups[k].prev.val, primary[1].vin[i].vout[1]) = {}

\* Every input that has a txid and a vout was looked up once, and one whose
\* lookup found outputs with its index has the last of them as prevout.
LookedUpAndResolved(i) ==
    LET inp == primary[1].vin[i]
    IN  NeedsLookup(inp) =>
            /\ Cardinality(LookupsOf(i)) = 1
            /\ \A k \in LookupsOf(i) :
                LET l == lookups[k]
                IN  (l.prev.ok /\ Matches(l.prev.val, inp.vout[1]) # {}) =>
                        ret.val.vin[i].prevout =
                            Some(l.prev.val.vout[Last(Matches(l.prev.val, inp.vout[1]))])

\* C4: a failed lookup, or one that finds no output with the index, leaves
\* that input's prevout absent; the other inputs are looked up and resolved
\* all the same, and the method still returns Ok.
C4_FailedLookupDegradesOneInput ==
    Enriched =>
        /\ ret.ok
        /\ \A i \in 1..Len(primary[1].vin) :
            /\ LookedUpAndResolved(i)
            /\ (NeedsLookup(primary[1].vin[i]) /\ Unresolved(i))
                    => ret.val.vin[i].prevout = None

\* What holds of the code in place of C4: such an input is left as the first
\* response decoded it.
FailedLookupLeavesInputAsDecoded ==
    Enriched =>
        /\ ret.ok
        /\ \A i \in 1..Len(primary[1].vin) :
            /\ LookedUpAndResolved(i)
            /\ (NeedsLookup(primary[1].vin[i]) /\ Unresolved(i))
                    => ret.val.vin[i] = primary[1].vin[i]

\* The inputs of tx that have a txid and a vout, in input order.
LookedUp(tx) ==
    SelectSeq([i \in 1..Len(tx.vin) |-> i], LAMBDA i : NeedsLookup(tx.vin[i]))

\* The calls are the first one and then one get_raw_transaction per input
\* that has a txid and a vout, in input order, repeated txids included, and
\* the lookups finished in that order.
OneCallPerInputInOrder ==
    LET tx == primary[1]
        L == LookedUp(tx)
    IN  /\ Len(calls) = 1 + Len(L)
        /\ calls[1] = Logged(get_raw_transaction(inv.arg.s))
        /\ \A k \in 1..Len(L) :
            /\ calls[k + 1] = Logged(get_raw_transaction(tx.vin[L[k]].txid[1]))
            /\ lookups[k].input = L[k]
        /\ Len(lookups) = Len(L)

\* A call begins only when every call before it is over: while one is in
\* flight the lookups before it have finished, and no other is pending.
OneCallAtATime ==
    (IsEnrichment /\ primary # None) =>
        Len(calls) = 1 + Len(lookups) + (IF pc \in {"calling", "sent", "answered"} THEN 1 ELSE 0)

\* C5: the secondary calls are one per input that has a txid and a vout, in
\* input order, one at a time, with no deduplication; an input lacking the
\* txid or the vout triggers no call and keeps its prevout absent.
C5_OneSequentialCallPerInput ==
    /\ OneCallAtATime
    /\ Enriched =>
        /\ OneCallPerInputInOrder
        /\ \A i \in 1..Len(primary[1].vin) :
            ~NeedsLookup(primary[1].vin[i]) =>
                /\ LookupsOf(i) = {}
                /\ ret.val.vin[i].prevout = None

\* What holds of the code in place of C5: such an input is left as the first
\* response decoded it.
SequentialCallsSkippedInputsAsDecoded ==
    /\ OneCallAtATime
    /\ Enriched =>
        /\ OneCallPerInputInOrder
        /\ \A i \in 1..Len(primary[1].vin) :
            ~NeedsLookup(primary[1].vin[i]) =>
                /\ LookupsOf(i) = {}
                /\ ret.val.vin[i] = primary[1].vin[i]

\* C6: after a lookup that succeeded, an input whose index some output of
\* the looked-up transaction carries has one of those outputs as prevout,
\* equal to the looked-up one; the prevout is never set to an output with
\* another index.
C6_PrevoutIsTheReferencedOutput ==
    Enriched =>
        \A k \in 1..Len(lookups) :
            LET l == lookups[k]
                before == primary[1].vin[l.input]
                after == ret.val.vin[l.input]
                M == Matches(l.prev.val, before.vout[1])
            IN  l.prev.ok =>
                    /\ M # {} =>
                        /\ after.prevout # None
                        /\ \E m \in M : after.prevout[1] = l.prev.val.vout[m]
                    /\ after.prevout # before.prevout =>
                        /\ after.prevout # None
                        /\ after.prevout[1].n = Some(before.vout[1])
                        /\ \E m \in 1..Len(l.prev.val.vout) :
                                after.prevout[1] = l.prev.val.vout[m]
                    /\ after.txid = before.txid
                    /\ after.vout = before.vout

C6_Witness ==
    /\ Enriched
    /\ primary[1] = Tx3
    /\ Len(lookups) = 1
    /\ lookups[1].prev.ok
    /\ lookups[1].prev.val = Tx3
    /\ ret.val.vin[3].prevout = Some(Out(70, Some(0)))

\* C7: a transaction decoded from a response has no prevout in any input,
\* whatever the body holds, be it the result of get_raw_transaction, a
\* transaction of a block or the first transaction of the enrichment; after
\* enrichment an input has a prevout only if its own lookup resolved it.
C7_PrevoutOnlyFromEnrichment ==
    /\ (pc = "done" /\ inv.name = "get_raw_transaction" /\ ret.ok) =>
            \A i \in 1..Len(ret.val.vin) : ret.val.vin[i].prevout = None
    /\ (pc = "done" /\ inv.name = "get_block" /\ ret.ok) =>
            \A t \in 1..Len(ret.val.tx) :
                \A i \in 1..Len(ret.val.tx[t].vin) :
                    ret.val.tx[t].vin[i].prevout = None
    /\ primary # None =>
            \A i \in 1..Len(primary[1].vin) : primary[1].vin[i].prevout = None
    /\ Enriched =>
            \A i \in 1..Len(ret.val.vin) :
                ret.val.vin[i].prevout # None =>
                    \E k \in LookupsOf(i) :
                        /\ lookups[k].prev.ok
                        /\ Matches(lookups[k].prev.val, primary[1].vin[i].vout[1]) # {}

\* An invocation of a method other than the enrichment has returned.
Returned == pc = "done" /\ IsSimple

\* The call failed in the transport: building the client, send(), or
\* reading the body of a response with a success status.
TransportFailed ==
    \/ res.kind \in {"build_failed", "send_failed"}
    \/ res.kind = "response" /\ res.status <= 399 /\ ~res.readable

ErrorStatus == res.kind = "response" /\ res.status >= 400

\* No error is swallowed and nothing is decoded but the body of a response
\* with a success status.
ErrorsSurface ==
    /\ Len(calls) = 1
    /\ Len(posts) <= 1
    /\ TransportFailed =>
            ~ret.ok /\ ret.err = "Reqwest" /\ decoded = << >>
    /\ ErrorStatus =>
            ~ret.ok /\ ret.err = MappedKind(res.status) /\ decoded = << >>
    /\ decoded # << >> =>
            /\ res.kind = "response" /\ res.status <= 399 /\ res.readable
            /\ decoded = << res.body >>
            /\ ret = deserialize(SamplesOf(inv.name).ty, res.body)

\* C8, as stated: a method other than the enrichment issues exactly one
\* POST per invocation, returns the transport error or the error kind of
\* the status without decoding and without a further request, and decodes
\* only after a success status.
C8_ExactlyOnePost ==
    Returned => (Len(posts) = 1 /\ ErrorsSurface)

\* C8, amended: such a method issues at most one POST per invocation:
\* exactly one, unless building the HTTP client fails, when it posts nothing
\* and returns the transport error; the rest as stated.
C8_AtMostOnePost ==
    Returned =>
        /\ ErrorsSurface
        /\ Len(posts) = (IF res.kind = "build_failed" THEN 0 ELSE 1)
        /\ \A k \in 1..Len(posts) :
                posts[k] = RequestBody(calls[k].method, calls[k].params)

C8_Witness ==
    /\ Returned
    /\ res.kind = "send_failed"
    /\ Len(posts) = 1
    /\ ret.err = "Reqwest"
    /\ decoded = << >>

\* The timeout of the table for an RPC method.
TableTimeout(method) ==
    CASE method \in {"getblockchaininfo", "getnetworkinfo", "getmininginfo",
                     "getpeerinfo", "getindexinfo", "getblockcount",
                     "getblockhash", "getdifficulty"} -> None
      [] method \in {"getblock", "getrawmempool", "getrawtransaction"} -> Some(120)
      [] method = "gettxoutsetinfo" -> Some(1800)

\* The RPC method (and the verbosity) each public method calls.
TableMethod(name) ==
    CASE name = "get_blockchain_info" -> "getblockchaininfo"
      [] name = "get_network_info" -> "getnetworkinfo"
      [] name = "get_mining_info" -> "getmininginfo"
      [] name = "get_peer_info" -> "getpeerinfo"
      [] name = "get_index_info" -> "getindexinfo"
      [] name = "get_block_count" -> "getblockcount"
      [] name = "get_block_hash" -> "getblockhash"
      [] name = "get_difficulty" -> "getdifficulty"
      [] name \in {"get_block", "get_block_hex"} -> "getblock"
      [] name = "get_raw_mempool" -> "getrawmempool"
      [] name \in {"get_raw_transaction", "get_raw_transaction_with_prevouts"}
            -> "getrawtransaction"
      [] name = "get_txoutset_info" -> "gettxoutsetinfo"

\* C9: every call uses the timeout of the table for its method: none for
\* the metadata calls, 120 seconds for getblock (verbosity 2 and 0),
\* getrawmempool and getrawtransaction, the first and the secondary calls
\* of the enrichment included, 1800 seconds for gettxoutsetinfo.
C9_FixedTimeouts ==
    /\ calls # << >> =>
        /\ calls[1].method = TableMethod(inv.name)
        /\ inv.name = "get_block" => calls[1].params[2] = JInt(2)
        /\ inv.name = "get_block_hex" => calls[1].params[2] = JInt(0)
    /\ \A k \in 1..Len(calls) :
        /\ calls[k].timeout = TableTimeout(calls[k].method)
        /\ k > 1 => calls[k].method = "getrawtransaction"

C9_Witness ==
    /\ Enriched
    /\ Len(calls) = 3
    /\ \A k \in 1..3 :
        calls[k].method = "getrawtransaction" /\ calls[k].timeout = Some(120)

\* C10: when several outputs of the looked-up transaction carry the input's
\* index, the prevout is the last of them in the order of the response; an
\* output without n is never the prevout.
C10_LastMatchingOutputWins ==
    Enriched =>
        \A k \in 1..Len(lookups) :
            LET l == lookups[k]
                before == primary[1].vin[l.input]
                after == ret.val.vin[l.input]
                M == Matches(l.prev.val, before.vout[1])
            IN  l.prev.ok =>
                    /\ M # {} => after.prevout = Some(l.prev.val.vout[Last(M)])
                    /\ (\A m \in 1..Len(l.prev.val.vout) : l.prev.val.vout[m].n = None)
                            => after.prevout = before.prevout
                    /\ after.prevout # before.prevout => after.prevout[1].n # None

C10_Witness ==
    /\ Enriched
    /\ Len(lookups) >= 1
    /\ lookups[1].prev.ok
    /\ lookups[1].prev.val = Tx2
    /\ primary[1].vin[lookups[1].input].vout = Some(1)
    /\ ret.val.vin[lookups[1].input].prevout = Some(Out(50, Some(1)))

=============================================================================
